---- MODULE Spec2Model ----
\* A model of mhwdata/io/datamap.py: DataRow (an id plus an insertion-ordered
\* dict of fields) and DataMap (an OrderedDict id -> DataRow, the reverse
\* (language, name) -> id index and the id generator).
\*
\* A Python dict / OrderedDict is a sequence of <<key, value>> pairs with
\* pairwise distinct keys, in insertion order.  A field value is a mapping
\* language -> string (the shape of the name field); the code never looks
\* inside any value but that of 'name'.
EXTENDS Integers, Sequences, FiniteSets, TLC

VARIABLES
    data,             \* DataMap._data: OrderedDict entry_id -> DataRow
    reverse_entries,  \* DataMap._reverse_entries: (lang, name) -> entry_id
    id_gen,           \* next value of DataMap._id_gen (itertools.count)
    last_id,          \* DataMap._last_id
    last_op,          \* the last DataMap call: its arguments and its outcome
    used_ids,         \* history: every entry_id a call has used so far
    failed_ids,       \* history: every entry_id an insert that raised has used
    inserted,         \* history: <<entry_id, name>> of each row as it was inserted
    row,              \* a DataRow on its own
    row_op            \* the last DataRow call, with the fields before it

vars == <<data, reverse_entries, id_gen, last_id, last_op, used_ids, failed_ids,
          inserted, row, row_op>>

-----------------------------------------------------------------------------
\* Bounds of the model.

\* add_entry is called with entry ids 0..MaxId, insert while id_gen <= MaxId.
MaxId == 2
\* A DataRow of the row specification holds at most MaxFields fields.
MaxFields == 4
\* extend is called with lists of at most MaxExtend entries.
MaxExtend == 2
\* The caller makes at most MaxRowCalls calls on the rows a DataMap holds.
MaxRowCalls == 3

-----------------------------------------------------------------------------
\* Python dict operations.

Keys(d) == [i \in 1..Len(d) |-> d[i][1]]

KeySet(d) == {d[i][1] : i \in 1..Len(d)}

\* key in d
Has(d, key) == key \in KeySet(d)

\* d[key], for a key of d
Get(d, key) == d[CHOOSE i \in 1..Len(d) : d[i][1] = key][2]

\* d[key] = value: overwrites in place, a new key goes to the end.
DictSet(d, key, value) ==
    IF Has(d, key)
    THEN [i \in 1..Len(d) |-> IF d[i][1] = key THEN <<key, value>> ELSE d[i]]
    ELSE Append(d, <<key, value>>)

\* del d[key], for a key of d
DictDel(d, key) ==
    LET keep(p) == p[1] # key IN SelectSeq(d, keep)

-----------------------------------------------------------------------------
\* DataRow

\* None, as returned by DataMap.id_of (entry ids are non-negative).
None == -1

DataRow(id, datarowdict) == [id |-> id, data |-> datarowdict]

\* None, as returned by DataMap.entry_of.
NoneRow == DataRow(None, <<>>)

\* DataRow.names: the (lang, name) tuples of the row, in the order stored.
names(r) == Get(r.data, "name")

\* name that gives the first translation, whatever the language asked for.
name_first(r, lang_id) == Get(r.data, "name")[1][2]

\* DataRow.name: self['name'][lang_id]
name(r, lang_id) == Get(Get(r.data, "name"), lang_id)

\* DataRow.__setitem__
setitem(r, key, value) == [r EXCEPT !.data = DictSet(r.data, key, value)]

\* DataRow.__delitem__
delitem(r, key) == [r EXCEPT !.data = DictDel(r.data, key)]

\* bool(after) is False: the default "" of set_value's after.
Falsy(after) == after = ""

\* KeysToMove with the two tests of the loop swapped, so that the anchor
\* itself is collected too.
RECURSIVE KeysToMoveWithAnchor(_, _, _, _)
KeysToMoveWithAnchor(keys, after, found_item, keys_to_move) ==
    IF keys = <<>> THEN keys_to_move
    ELSE LET item_key == Head(keys) IN
         IF item_key = after \/ found_item
         THEN KeysToMoveWithAnchor(Tail(keys), after, TRUE,
                                   Append(keys_to_move, item_key))
         ELSE KeysToMoveWithAnchor(Tail(keys), after, FALSE, keys_to_move)

\* The first loop of set_value: the keys that follow after, in order.
RECURSIVE KeysToMove(_, _, _, _)
KeysToMove(keys, after, found_item, keys_to_move) ==
    IF keys = <<>> THEN keys_to_move
    ELSE LET item_key == Head(keys) IN
         IF found_item
         THEN KeysToMove(Tail(keys), after, TRUE, Append(keys_to_move, item_key))
         ELSE IF item_key = after
              THEN KeysToMove(Tail(keys), after, TRUE, keys_to_move)
              ELSE KeysToMove(Tail(keys), after, FALSE, keys_to_move)

\* The second loop of set_value: each key is deleted and set again.
RECURSIVE MoveToEnd(_, _)
MoveToEnd(d, keys_to_move) ==
    IF keys_to_move = <<>> THEN d
    ELSE LET item_key == Head(keys_to_move)
             value == Get(d, item_key)
         IN  MoveToEnd(DictSet(DictDel(d, item_key), item_key, value),
                       Tail(keys_to_move))

\* The second loop of set_value when it does not read the value of the key
\* it moves, and sets the key to the value passed to set_value.
RECURSIVE MoveToEndShadow(_, _, _)
MoveToEndShadow(d, keys_to_move, value) ==
    IF keys_to_move = <<>> THEN d
    ELSE LET item_key == Head(keys_to_move)
         IN  MoveToEndShadow(DictSet(DictDel(d, item_key), item_key, value),
                             Tail(keys_to_move), value)

\* set_value with that second loop.
set_value_shadow(r, key, value, after) ==
    IF Falsy(after)
    THEN setitem(r, key, value)
    ELSE LET keys_to_move == KeysToMove(Keys(r.data), after, FALSE, <<>>)
             r1 == setitem(r, key, value)
         IN  [r1 EXCEPT !.data = MoveToEndShadow(r1.data, keys_to_move, value)]

\* set_value without the early return of "if not after".
set_value_no_guard(r, key, value, after) ==
    LET keys_to_move == KeysToMove(Keys(r.data), after, FALSE, <<>>)
        r1 == setitem(r, key, value)
    IN  [r1 EXCEPT !.data = MoveToEnd(r1.data, keys_to_move)]

\* DataRow.set_value(key, value, after=after)
set_value(r, key, value, after) ==
    IF Falsy(after)
    THEN setitem(r, key, value)
    ELSE LET keys_to_move == KeysToMove(Keys(r.data), after, FALSE, <<>>)
             r1 == setitem(r, key, value)
         IN  [r1 EXCEPT !.data = MoveToEnd(r1.data, keys_to_move)]

-----------------------------------------------------------------------------
\* DataMap.  self is the record of the four fields of a DataMap; every call
\* returns the DataMap after it, the exception raised and the value returned.

Raised == {"none", "missing_name", "duplicate_key"}

Self == [data |-> data, reverse_entries |-> reverse_entries,
         id_gen |-> id_gen, last_id |-> last_id]

\* DataMap() before the entries of data are added.
EmptyMap == [data |-> <<>>, reverse_entries |-> <<>>, id_gen |-> 1, last_id |-> 0]

\* DataMap.id_of
id_of(self, language_code, nm) ==
    LET key == <<language_code, nm>> IN
    IF key \in DOMAIN self.reverse_entries THEN self.reverse_entries[key] ELSE None

\* DataMap.entry_of
entry_of(self, language_code, nm) ==
    LET id_value == id_of(self, language_code, nm) IN
    IF Has(self.data, id_value) THEN Get(self.data, id_value) ELSE NoneRow

\* ReverseSet as setdefault: a pair that is already claimed keeps its id.
ReverseSetDefault(rev, key, entry_id) ==
    [k \in DOMAIN rev \cup {key} |-> IF k \in DOMAIN rev THEN rev[k] ELSE entry_id]

\* self._reverse_entries[(lang, name)] = entry_id
ReverseSet(rev, key, entry_id) ==
    [k \in DOMAIN rev \cup {key} |-> IF k = key THEN entry_id ELSE rev[k]]

\* The loop of _add_entry over new_entry.names().
RECURSIVE ReverseAdd(_, _, _)
ReverseAdd(rev, pairs, entry_id) ==
    IF pairs = <<>> THEN rev
    ELSE ReverseAdd(ReverseSet(rev, <<Head(pairs)[1], Head(pairs)[2]>>, entry_id),
                    Tail(pairs), entry_id)

\* _add_entry that builds the DataRow with self._last_id as its id.
_add_entry_last_id(self, entry_id, entry) ==
    IF ~Has(entry, "name")
    THEN [self |-> self, raised |-> "missing_name", ret |-> NoneRow]
    ELSE IF Has(self.data, entry_id)
    THEN [self |-> self, raised |-> "duplicate_key", ret |-> NoneRow]
    ELSE LET new_entry == DataRow(self.last_id, entry) IN
         [self |-> [self EXCEPT
                      !.reverse_entries = ReverseAdd(@, names(new_entry), entry_id),
                      !.data = DictSet(@, entry_id, new_entry)],
          raised |-> "none",
          ret |-> new_entry]

\* _add_entry that fills the reverse index before it looks for the entry id.
_add_entry_index_first(self, entry_id, entry) ==
    IF ~Has(entry, "name")
    THEN [self |-> self, raised |-> "missing_name", ret |-> NoneRow]
    ELSE LET new_entry == DataRow(entry_id, entry)
             self1 == [self EXCEPT
                         !.reverse_entries = ReverseAdd(@, names(new_entry), entry_id)]
         IN  IF Has(self.data, entry_id)
             THEN [self |-> self1, raised |-> "duplicate_key", ret |-> NoneRow]
             ELSE [self |-> [self1 EXCEPT !.data = DictSet(@, entry_id, new_entry)],
                   raised |-> "none",
                   ret |-> new_entry]

\* _add_entry that keeps _data in the order of the entry ids.
_add_entry_sorted(self, entry_id, entry) ==
    IF ~Has(entry, "name")
    THEN [self |-> self, raised |-> "missing_name", ret |-> NoneRow]
    ELSE IF Has(self.data, entry_id)
    THEN [self |-> self, raised |-> "duplicate_key", ret |-> NoneRow]
    ELSE LET new_entry == DataRow(entry_id, entry)
             below(p) == p[1] < entry_id
             above(p) == p[1] > entry_id
         IN  [self |-> [self EXCEPT
                          !.reverse_entries = ReverseAdd(@, names(new_entry), entry_id),
                          !.data = SelectSeq(@, below) \o <<<<entry_id, new_entry>>>>
                                      \o SelectSeq(@, above)],
              raised |-> "none",
              ret |-> new_entry]

\* DataMap._add_entry
_add_entry(self, entry_id, entry) ==
    IF ~Has(entry, "name")
    THEN [self |-> self, raised |-> "missing_name", ret |-> NoneRow]
    ELSE IF Has(self.data, entry_id)
    THEN [self |-> self, raised |-> "duplicate_key", ret |-> NoneRow]
    ELSE LET new_entry == DataRow(entry_id, entry) IN
         [self |-> [self EXCEPT
                      !.reverse_entries = ReverseAdd(@, names(new_entry), entry_id),
                      !.data = DictSet(@, entry_id, new_entry)],
          raised |-> "none",
          ret |-> new_entry]

\* add_entry that resets the generator for entry_id >= self._last_id.
add_entry_ge(self, entry_id, entry) ==
    LET self1 == IF entry_id >= self.last_id
                 THEN [self EXCEPT !.id_gen = entry_id + 1, !.last_id = entry_id]
                 ELSE self
    IN  _add_entry(self1, entry_id, entry)

\* DataMap.add_entry
add_entry(self, entry_id, entry) ==
    LET self1 == IF entry_id > self.last_id
                 THEN [self EXCEPT !.id_gen = entry_id + 1, !.last_id = entry_id]
                 ELSE self
    IN  _add_entry(self1, entry_id, entry)

\* DataMap.insert
insert(self, entry) ==
    LET entry_id == self.id_gen
    IN  _add_entry([self EXCEPT !.id_gen = entry_id + 1], entry_id, entry)

\* extend that goes on with the next entry when an insert raises.
RECURSIVE extend_skip(_, _)
extend_skip(self, entries) ==
    IF entries = <<>> THEN [self |-> self, raised |-> "none", ret |-> NoneRow]
    ELSE extend_skip(insert(self, Head(entries)).self, Tail(entries))

\* DataMap.extend: insert for each entry, up to the first one that raises.
RECURSIVE extend(_, _)
extend(self, entries) ==
    IF entries = <<>> THEN [self |-> self, raised |-> "none", ret |-> NoneRow]
    ELSE LET r == insert(self, Head(entries)) IN
         IF r.raised # "none" THEN r ELSE extend(r.self, Tail(entries))

\* DataMap.__init__(data): add_entry for each item, up to the first that raises.
RECURSIVE construct(_, _)
construct(self, items) ==
    IF items = <<>> THEN [self |-> self, raised |-> "none", ret |-> NoneRow]
    ELSE LET r == add_entry(self, Head(items)[1], Head(items)[2]) IN
         IF r.raised # "none" THEN r ELSE construct(r.self, Tail(items))

\* DataMap.__iter__: the entry ids, in the order of _data.
DataMap_iter(self) == Keys(self.data)

\* bool(x) of what entry_of returns: None is false, and so is a DataRow
\* without fields (DataRow defines __len__ and no __bool__).
Truthy(r) == r # NoneRow /\ Len(r.data) # 0

\* NameSet.__contains__
NameSet_contains(self, language_code, key) ==
    Truthy(entry_of(self, language_code, key))

\* row.name(language_code) raises KeyError: no 'name' field, or no such language.
NameRaises(r, language_code) ==
    ~Has(r.data, "name") \/ ~Has(Get(r.data, "name"), language_code)

\* The loop of NameSet.__iter__ over the rows: the names yielded, and the
\* KeyError of the first row that has no name in the language.
RECURSIVE NameSetYield(_, _, _)
NameSetYield(rows, language_code, yielded) ==
    IF rows = <<>> THEN [yielded |-> yielded, raised |-> "none"]
    ELSE IF NameRaises(Head(rows)[2], language_code)
    THEN [yielded |-> yielded, raised |-> "key_error"]
    ELSE NameSetYield(Tail(rows), language_code,
                      Append(yielded, name(Head(rows)[2], language_code)))

\* The loop of NameSet.__iter__ with the rows that have no name in the
\* language left out.
RECURSIVE NameSetYieldSkip(_, _, _)
NameSetYieldSkip(rows, language_code, yielded) ==
    IF rows = <<>> THEN [yielded |-> yielded, raised |-> "none"]
    ELSE IF NameRaises(Head(rows)[2], language_code)
    THEN NameSetYieldSkip(Tail(rows), language_code, yielded)
    ELSE NameSetYieldSkip(Tail(rows), language_code,
                          Append(yielded, name(Head(rows)[2], language_code)))

NameSet_iter_skip(self, language_code) ==
    NameSetYieldSkip(self.data, language_code, <<>>)

\* NameSet.__iter__ of DataMap.names(language_code)
NameSet_iter(self, language_code) == NameSetYield(self.data, language_code, <<>>)

-----------------------------------------------------------------------------
\* The inputs of the calls.

Fire == << <<"en", "Fire">> >>
FireHi == << <<"en", "Fire">>, <<"ja", "Hi">> >>
Ice == << <<"en", "Ice">> >>

\* Raw entries: two that share the pair (en, Fire), and one that has no name.
EntryFire == << <<"name", Fire>> >>
EntryFireHi == << <<"name", FireHi>>, <<"description", Ice>> >>
EntryNoName == << <<"description", Fire>> >>

Entries == {EntryFire, EntryFireHi, EntryNoName}

\* The lists extend is called with.
EntryLists == UNION {[1..n -> Entries] : n \in 0..MaxExtend}

\* The mappings a DataMap is constructed from.
InitialData == { <<>>,
                 << <<2, EntryFire>> >>,
                 << <<2, EntryFireHi>>, <<0, EntryFire>> >> }

NoOp == [op |-> "init", entry_id |-> None, entry |-> <<>>, entries |-> <<>>,
         raised |-> "none"]

NoRowOp == [op |-> "init", key |-> "", value |-> <<>>, after |-> "",
            pre |-> <<>>, raised |-> "none", calls |-> 0]

-----------------------------------------------------------------------------
\* The DataMap specification: a DataMap is constructed, then add_entry, insert
\* and extend are called in any order with any arguments.

\* The entry id and the name of the rows _add_entry has put in rows after the
\* first from rows, as they were put in.
InsertedNames(rows, from) ==
    [i \in 1..(Len(rows) - from) |->
        <<rows[from + i][1], names(rows[from + i][2])>>]

StoreIs(self) ==
    /\ data = self.data
    /\ reverse_entries = self.reverse_entries
    /\ id_gen = self.id_gen
    /\ last_id = self.last_id

StoreBecomes(self) ==
    /\ data' = self.data
    /\ reverse_entries' = self.reverse_entries
    /\ id_gen' = self.id_gen
    /\ last_id' = self.last_id

Init ==
    /\ \E items \in InitialData :
          LET r == construct(EmptyMap, items) IN
          /\ r.raised = "none"
          /\ StoreIs(r.self)
          /\ used_ids = KeySet(items)
          /\ inserted = InsertedNames(r.self.data, 0)
    /\ failed_ids = {}
    /\ last_op = NoOp
    /\ row = NoneRow
    /\ row_op = NoRowOp

AddEntry(entry_id, entry) ==
    LET r == add_entry(Self, entry_id, entry) IN
    /\ StoreBecomes(r.self)
    /\ last_op' = [op |-> "add_entry", entry_id |-> entry_id, entry |-> entry,
                   entries |-> <<>>, raised |-> r.raised]
    /\ used_ids' = used_ids \cup {entry_id}
    /\ inserted' = inserted \o InsertedNames(r.self.data, Len(data))
    /\ UNCHANGED <<failed_ids, row, row_op>>

Insert(entry) ==
    LET r == insert(Self, entry) IN
    /\ id_gen <= MaxId
    /\ StoreBecomes(r.self)
    /\ last_op' = [op |-> "insert", entry_id |-> id_gen, entry |-> entry,
                   entries |-> <<>>, raised |-> r.raised]
    /\ used_ids' = used_ids \cup {id_gen}
    /\ failed_ids' = IF r.raised = "none" THEN failed_ids
                     ELSE failed_ids \cup {id_gen}
    /\ inserted' = inserted \o InsertedNames(r.self.data, Len(data))
    /\ UNCHANGED <<row, row_op>>

Extend(entries) ==
    LET r == extend(Self, entries) IN
    /\ id_gen + Len(entries) <= MaxId + 1
    /\ StoreBecomes(r.self)
    /\ last_op' = [op |-> "extend", entry_id |-> id_gen, entry |-> <<>>,
                   entries |-> entries, raised |-> r.raised]
    /\ used_ids' = used_ids \cup (id_gen .. (r.self.id_gen - 1))
    /\ failed_ids' = IF r.raised = "none" THEN failed_ids
                     ELSE failed_ids \cup {r.self.id_gen - 1}
    /\ inserted' = inserted \o InsertedNames(r.self.data, Len(data))
    /\ UNCHANGED <<row, row_op>>

Next ==
    \/ \E entry_id \in 0..MaxId, entry \in Entries : AddEntry(entry_id, entry)
    \/ \E entry \in Entries : Insert(entry)
    \/ \E entries \in EntryLists : Extend(entries)

Spec == Init /\ [][Next]_vars

-----------------------------------------------------------------------------
\* The DataRow specification: a DataRow of any fields, in any order and of any
\* values, on which one of set_value, [key] = value and del [key] is called.

Fields == {"name", "a", "b", "c", ""}

Values == {Fire, Ice}

\* The dicts of n fields, in every order and of every value.
RowsOf(n) ==
    LET Distinct(ks) == \A i, j \in 1..n : ks[i] = ks[j] => i = j
    IN  {[i \in 1..n |-> <<ks[i], vs[i]>>] :
            ks \in {k \in [1..n -> Fields] : Distinct(k)}, vs \in [1..n -> Values]}

\* The dicts of at most MaxFields fields.
InitialRows == UNION {RowsOf(n) : n \in 0..MaxFields}

InitRow ==
    /\ StoreIs(EmptyMap)
    /\ last_op = NoOp
    /\ used_ids = {}
    /\ failed_ids = {}
    /\ inserted = <<>>
    /\ \E d \in InitialRows : row = DataRow(1, d)
    /\ row_op = NoRowOp

\* The row is as constructed, and a call that adds a field keeps it within
\* MaxFields.
Fits(key) ==
    /\ row_op.op = "init"
    /\ Has(row.data, key) \/ Len(row.data) < MaxFields

SetValue(key, value, after) ==
    /\ Fits(key)
    /\ row' = set_value(row, key, value, after)
    /\ row_op' = [op |-> "set_value", key |-> key, value |-> value, after |-> after,
                  pre |-> row.data, raised |-> "none", calls |-> 1]
    /\ UNCHANGED <<data, reverse_entries, id_gen, last_id, last_op, used_ids,
                   failed_ids, inserted>>

SetItem(key, value) ==
    /\ Fits(key)
    /\ row' = setitem(row, key, value)
    /\ row_op' = [op |-> "setitem", key |-> key, value |-> value, after |-> "",
                  pre |-> row.data, raised |-> "none", calls |-> 1]
    /\ UNCHANGED <<data, reverse_entries, id_gen, last_id, last_op, used_ids,
                   failed_ids, inserted>>

\* del row[key] raises KeyError for a key that is not there.
DelItem(key) ==
    /\ row_op.op = "init"
    /\ row' = IF Has(row.data, key) THEN delitem(row, key) ELSE row
    /\ row_op' = [op |-> "delitem", key |-> key, value |-> <<>>, after |-> "",
                  pre |-> row.data,
                  raised |-> IF Has(row.data, key) THEN "none" ELSE "key_error",
                  calls |-> 1]
    /\ UNCHANGED <<data, reverse_entries, id_gen, last_id, last_op, used_ids,
                   failed_ids, inserted>>

NextRow ==
    \/ \E key \in Fields, value \in Values, after \in Fields :
          SetValue(key, value, after)
    \/ \E key \in Fields, value \in Values : SetItem(key, value)
    \/ \E key \in Fields : DelItem(key)

SpecRow == InitRow /\ [][NextRow]_vars

-----------------------------------------------------------------------------
\* The specification of a DataMap whose rows the caller changes: a DataMap is
\* constructed, and then insert is called and the caller calls set_value,
\* [key] = value and del [key] on the rows the DataMap holds, in any order.
\* The DataMap and the caller hold the same DataRow object, so a call shows in
\* _data; row is the DataRow of the last call, after the call.

\* The DataMap when the DataRow it holds under entry_id has become r, with the
\* reverse index filled again from the names of r.
MutateRowReindex(self, entry_id, r) ==
    [self EXCEPT !.data = DictSet(@, entry_id, r),
                 !.reverse_entries =
                     IF Has(r.data, "name") THEN ReverseAdd(@, names(r), entry_id)
                     ELSE @]

\* The DataMap when the DataRow it holds under entry_id has become r.
MutateRow(self, entry_id, r) == [self EXCEPT !.data = DictSet(@, entry_id, r)]

\* The fields and the values the caller sets.
MutKeys == {"name", "description"}

MutValues == {Ice, FireHi}

RowCall(entry_id, r, op) ==
    /\ row_op.calls < MaxRowCalls
    /\ StoreBecomes(MutateRow(Self, entry_id, r))
    /\ row' = r
    /\ row_op' = op
    /\ UNCHANGED <<last_op, used_ids, failed_ids, inserted>>

RowSetValue(entry_id, key, value, after) ==
    /\ Has(data, entry_id)
    /\ RowCall(entry_id, set_value(Get(data, entry_id), key, value, after),
               [op |-> "set_value", key |-> key, value |-> value, after |-> after,
                pre |-> Get(data, entry_id).data, raised |-> "none",
                calls |-> row_op.calls + 1])

RowSetItem(entry_id, key, value) ==
    /\ Has(data, entry_id)
    /\ RowCall(entry_id, setitem(Get(data, entry_id), key, value),
               [op |-> "setitem", key |-> key, value |-> value, after |-> "",
                pre |-> Get(data, entry_id).data, raised |-> "none",
                calls |-> row_op.calls + 1])

RowDelItem(entry_id, key) ==
    /\ Has(data, entry_id)
    /\ Has(Get(data, entry_id).data, key)
    /\ RowCall(entry_id, delitem(Get(data, entry_id), key),
               [op |-> "delitem", key |-> key, value |-> <<>>, after |-> "",
                pre |-> Get(data, entry_id).data, raised |-> "none",
                calls |-> row_op.calls + 1])

NextMut ==
    \/ \E entry \in Entries : Insert(entry)
    \/ \E entry_id \in 0..MaxId, key \in MutKeys, value \in MutValues,
          after \in MutKeys : RowSetValue(entry_id, key, value, after)
    \/ \E entry_id \in 0..MaxId, key \in MutKeys, value \in MutValues :
          RowSetItem(entry_id, key, value)
    \/ \E entry_id \in 0..MaxId, key \in MutKeys : RowDelItem(entry_id, key)

SpecMut == Init /\ [][NextMut]_vars

-----------------------------------------------------------------------------
\* Properties of the DataMap specification (Spec).

\* The DataRow the last successful add_entry or insert created.
Added == last_op.op \in {"add_entry", "insert"} /\ last_op.raised = "none"

\* The (lang, name) pairs of the name field of a row.
PairsOf(r) == {<<names(r)[i][1], names(r)[i][2]>> : i \in 1..Len(names(r))}

\* C1: the id the next insert uses (id_gen) is greater than every entry id a
\* call has used so far, so it is never an id that data already holds.
C1_IdMonotonicity == \A i \in used_ids : id_gen > i

\* C2: an add_entry that fails on an entry id already present leaves data,
\* the reverse index and the generator state (id_gen, last_id) as they were.
C2_DuplicateLeavesStoreUnchanged ==
    [][(last_op'.op = "add_entry" /\ last_op'.raised = "duplicate_key")
        => UNCHANGED <<data, reverse_entries, id_gen, last_id>>]_vars

\* C3: no two rows of data have the same id, the row stored under key k has
\* id k, and a row keeps its key and its id in every step.
C3_Uniqueness ==
    /\ [](/\ \A i, j \in 1..Len(data) : data[i][2].id = data[j][2].id => i = j
          /\ \A i \in 1..Len(data) : data[i][2].id = data[i][1])
    /\ [][\A i \in 1..Len(data) :
            /\ i <= Len(data')
            /\ data'[i][1] = data[i][1]
            /\ data'[i][2].id = data[i][2].id]_vars

C3_Witness ==
    /\ last_op.raised = "duplicate_key"
    /\ Len(data) >= 3
    /\ \E i \in 1..Len(data) : data[i][1] = last_op.entry_id

\* C4: the keys of the reverse index are exactly the (lang, name) pairs of the
\* rows of data, and each maps to the id of the last inserted row with the pair.
C4_ReverseIndexDerived ==
    /\ DOMAIN reverse_entries = UNION {PairsOf(data[i][2]) : i \in 1..Len(data)}
    /\ \A k \in DOMAIN reverse_entries :
          LET holders == {i \in 1..Len(data) : k \in PairsOf(data[i][2])}
              latest == CHOOSE i \in holders : \A j \in holders : j <= i
          IN  reverse_entries[k] = data[latest][2].id

C4_Witness ==
    /\ \E i, j \in 1..Len(data) :
          /\ i < j
          /\ <<"en", "Fire">> \in PairsOf(data[i][2]) \cap PairsOf(data[j][2])
          /\ <<"ja", "Hi">> \in PairsOf(data[i][2]) \ PairsOf(data[j][2])
          /\ reverse_entries[<<"en", "Fire">>] = data[j][2].id
          /\ reverse_entries[<<"ja", "Hi">>] = data[i][2].id
    /\ last_op.raised = "duplicate_key"

\* C5: right after a successful add_entry or insert, id_of gives the new
\* row's id and entry_of the new row, for every (lang, name) pair of its name.
C5_ReverseIndexConsistency ==
    Added =>
       LET nm == Get(last_op.entry, "name") IN
       \A i \in 1..Len(nm) :
          /\ id_of(Self, nm[i][1], nm[i][2]) = last_op.entry_id
          /\ entry_of(Self, nm[i][1], nm[i][2]) = [id |-> last_op.entry_id,
                                                   data |-> last_op.entry]

C5_Witness ==
    /\ Added
    /\ last_op.entry = EntryFire
    /\ \E i \in 1..Len(data) :
          /\ data[i][1] # last_op.entry_id
          /\ <<"en", "Fire">> \in PairsOf(data[i][2])

\* C6: an insert has the outcome of add_entry(id_gen, entry) and leaves the
\* same data, reverse index and generator state.
C6_InsertIsAddWithNextId ==
    [][last_op'.op = "insert"
        => LET r == add_entry(Self, id_gen, last_op'.entry) IN
           /\ last_op'.raised = r.raised
           /\ data' = r.self.data
           /\ reverse_entries' = r.self.reverse_entries
           /\ id_gen' = r.self.id_gen
           /\ last_id' = r.self.last_id]_vars

\* C7: id_gen is always greater than last_id; a successful add_entry with an
\* entry id above last_id leaves id_gen = entry id + 1 and last_id = entry id,
\* and one with an entry id not above last_id leaves both as they were.
C7_GeneratorInvariant ==
    /\ [](id_gen > last_id)
    /\ [][(last_op'.op = "add_entry" /\ last_op'.raised = "none")
           => IF last_op'.entry_id > last_id
              THEN id_gen' = last_op'.entry_id + 1 /\ last_id' = last_op'.entry_id
              ELSE UNCHANGED <<id_gen, last_id>>]_vars

C7_Witness ==
    /\ Added
    /\ last_op.op = "add_entry"
    /\ last_op.entry_id <= last_id
    /\ id_gen > last_id + 1
    /\ \E i \in 1..Len(data) : data[i][1] > last_id

-----------------------------------------------------------------------------
\* Properties of the DataRow specification (SpecRow).

\* The last call was set_value(key, value, after=after) on the fields pre.
WasSetValue == row_op.op = "set_value"

\* The position of key in the sequence keys, 0 when it is not there.
IndexOf(keys, key) ==
    IF \E i \in 1..Len(keys) : keys[i] = key
    THEN CHOOSE i \in 1..Len(keys) : keys[i] = key
    ELSE 0

\* The sequence keys with key put in right after position i.
InsertedAt(keys, i, key) ==
    SubSeq(keys, 1, i) \o <<key>> \o SubSeq(keys, i + 1, Len(keys))

\* C8: after set_value(f, v, after=g) with f already a field and g another
\* field of the row, f is the direct successor of g.
C8_ExistingFieldMovesAfterAnchor ==
    (/\ WasSetValue
     /\ Has(row_op.pre, row_op.key)
     /\ Has(row_op.pre, row_op.after)
     /\ row_op.key # row_op.after)
    => IndexOf(Keys(row.data), row_op.key)
          = IndexOf(Keys(row.data), row_op.after) + 1

\* C9 as claimed: after set_value(e, v, after=g) with e a new field and g a
\* field of the row, the fields are the old ones in their order with e put in
\* right after g.
C9_NewFieldAfterAnyAnchor ==
    (/\ WasSetValue
     /\ ~Has(row_op.pre, row_op.key)
     /\ Has(row_op.pre, row_op.after))
    => Keys(row.data) = InsertedAt(Keys(row_op.pre),
                                   IndexOf(Keys(row_op.pre), row_op.after),
                                   row_op.key)

\* C9 as amended: the same for every anchor g but the empty string, with which
\* set_value is a plain set and e goes to the end.
C9_NewFieldAfterAnchor ==
    (/\ WasSetValue
     /\ ~Has(row_op.pre, row_op.key)
     /\ Has(row_op.pre, row_op.after))
    => Keys(row.data) =
          IF row_op.after # ""
          THEN InsertedAt(Keys(row_op.pre),
                          IndexOf(Keys(row_op.pre), row_op.after), row_op.key)
          ELSE Append(Keys(row_op.pre), row_op.key)

C9_Witness ==
    /\ WasSetValue
    /\ ~Has(row_op.pre, row_op.key)
    /\ row_op.after # ""
    /\ Len(row_op.pre) >= 3
    /\ IndexOf(Keys(row_op.pre), row_op.after) = 2
    /\ IndexOf(Keys(row.data), row_op.key) = 3
    /\ Len(row.data) > 3

\* C10: set_value with an anchor that is not a field of the row, or with no
\* anchor (after=""), leaves the row that [key] = value leaves: a new field
\* at the end, a field that exists overwritten in place, all else as before.
C10_AbsentAnchorIsPlainSet ==
    (WasSetValue /\ (~Has(row_op.pre, row_op.after) \/ row_op.after = ""))
    => /\ row = setitem(DataRow(row.id, row_op.pre), row_op.key, row_op.value)
       /\ Keys(row.data) = IF Has(row_op.pre, row_op.key)
                           THEN Keys(row_op.pre)
                           ELSE Append(Keys(row_op.pre), row_op.key)
       /\ \A k \in KeySet(row.data) :
             Get(row.data, k) = IF k = row_op.key THEN row_op.value
                                ELSE Get(row_op.pre, k)

C10_Witness ==
    /\ WasSetValue
    /\ ~Has(row_op.pre, row_op.after)
    /\ row_op.after # ""
    /\ Len(row_op.pre) >= 3
    /\ IndexOf(Keys(row_op.pre), row_op.key) = 2
    /\ Get(row_op.pre, row_op.key) # row_op.value
    /\ Get(row.data, row_op.key) = row_op.value

-----------------------------------------------------------------------------
\* More properties of the DataMap specification (Spec).

\* C14: iterating the DataMap gives the entry ids in the order in which the
\* rows were added: a call leaves the ids that were there in their order and
\* puts the id of each row it adds at the end, whatever its value.
C14_InsertionOrder ==
    [][/\ Len(data') >= Len(data)
       /\ SubSeq(DataMap_iter(Self)', 1, Len(data)) = DataMap_iter(Self)
       /\ (last_op'.op \in {"add_entry", "insert"} =>
             DataMap_iter(Self)' =
                IF last_op'.raised = "none"
                THEN Append(DataMap_iter(Self), last_op'.entry_id)
                ELSE DataMap_iter(Self))
       /\ (last_op'.op = "extend" =>
             \A i \in (Len(data) + 1)..Len(data') :
                DataMap_iter(Self)'[i] = id_gen + (i - Len(data)) - 1)]_vars

C14_Witness ==
    /\ Added
    /\ Len(data) >= 3
    /\ DataMap_iter(Self)[Len(data)] = last_op.entry_id
    /\ DataMap_iter(Self)[1] > DataMap_iter(Self)[2]
    /\ DataMap_iter(Self)[2] < DataMap_iter(Self)[3]

\* The first entry of the list an insert raises on, from the DataMap before
\* the call: it has no name, or its id is there already.  Len + 1 if none.
FirstFailure(entries) ==
    LET fails(i) == \/ ~Has(entries[i], "name")
                    \/ Has(data, id_gen + i - 1)
        failing == {i \in 1..Len(entries) : fails(i)}
    IN  IF failing = {} THEN Len(entries) + 1
        ELSE CHOOSE i \in failing : \A j \in failing : i <= j

\* C15: when the insert of the k-th entry of extend raises, the call raises,
\* the rows of the k-1 entries before it are in _data and in the reverse index
\* under the ids they were given, and no later entry is inserted.
C15_ExtendNotAtomic ==
    [][last_op'.op = "extend" =>
         LET entries == last_op'.entries
             k == FirstFailure(entries)
             added == [i \in 1..(k - 1) |->
                          <<id_gen + i - 1,
                            [id |-> id_gen + i - 1, data |-> entries[i]]>>]
         IN  /\ (last_op'.raised # "none") <=> (k <= Len(entries))
             /\ data' = data \o added
             /\ \A i \in 1..(k - 1) : \A p \in PairsOf(added[i][2]) :
                   LET holders == {j \in 1..(k - 1) : p \in PairsOf(added[j][2])}
                       latest == CHOOSE j \in holders : \A h \in holders : h <= j
                   IN  id_of(Self, p[1], p[2])' = id_gen + latest - 1]_vars

C15_Witness ==
    /\ last_op.op = "extend"
    /\ last_op.raised # "none"
    /\ Len(last_op.entries) = 2
    /\ Has(last_op.entries[1], "name")
    /\ Has(data, last_op.entry_id)
    /\ ~Has(data, last_op.entry_id + 1)
    /\ id_of(Self, "en", "Fire") = last_op.entry_id

\* C16: the row a successful add_entry or insert made gives back, field by
\* field and in the same order, what the entry held, and its name in every
\* language of the entry; no later call changes a row of the DataMap.
C16_RoundTrip ==
    /\ [](Added =>
            LET r == Get(data, last_op.entry_id)
                nm == Get(last_op.entry, "name")
            IN  /\ Keys(r.data) = Keys(last_op.entry)
                /\ \A k \in KeySet(last_op.entry) :
                      Get(r.data, k) = Get(last_op.entry, k)
                /\ \A i \in 1..Len(nm) : name(r, nm[i][1]) = nm[i][2])
    /\ [][\A i \in 1..Len(data) : i <= Len(data') /\ data'[i] = data[i]]_vars

C16_Witness ==
    /\ Added
    /\ last_op.entry = EntryFire
    /\ Len(data) >= 2
    /\ data[1][2].data = EntryFireHi
    /\ name(data[1][2], "ja") = "Hi"
    /\ name(data[1][2], "en") = "Fire"

\* C17: every insert uses the id id_gen and leaves id_gen one higher, whether
\* it raises or not, and never uses the id of an insert that raised before it.
C17_InsertConsumesId ==
    [][last_op'.op = "insert" =>
         /\ last_op'.entry_id = id_gen
         /\ id_gen' = id_gen + 1
         /\ last_op'.entry_id \notin failed_ids]_vars

\* C18: an add_entry that raises on an entry without name leaves _data, the
\* reverse index and the generator state (id_gen, last_id) as they were.
C18_MissingNameLeavesStoreUnchanged ==
    [][(last_op'.op = "add_entry" /\ last_op'.raised = "missing_name")
        => UNCHANGED <<data, reverse_entries, id_gen, last_id>>]_vars

-----------------------------------------------------------------------------
\* More properties of the DataRow specification (SpecRow).

\* The sequence keys without key.
Without(keys, key) == LET other(k) == k # key IN SelectSeq(keys, other)

\* C20: after set_value(f, v, after=g) the fields are the old fields and f,
\* f has the value v and every other field its old value, the fields other
\* than f are in their old order, the fields up to and including g are where
\* they were, and the id of the row is the same.
C20_SetValueFrame ==
    WasSetValue =>
       LET old == Keys(row_op.pre)
           new == Keys(row.data)
       IN  /\ KeySet(row.data) = KeySet(row_op.pre) \cup {row_op.key}
           /\ Len(new) = Cardinality(KeySet(row.data))
           /\ Get(row.data, row_op.key) = row_op.value
           /\ \A k \in KeySet(row_op.pre) \ {row_op.key} :
                 Get(row.data, k) = Get(row_op.pre, k)
           /\ Without(new, row_op.key) = Without(old, row_op.key)
           /\ \A i \in 1..IndexOf(old, row_op.after) : new[i] = old[i]
           /\ row.id = 1

C20_Witness ==
    /\ WasSetValue
    /\ row_op.after # ""
    /\ Len(row_op.pre) >= 3
    /\ IndexOf(Keys(row_op.pre), row_op.after) = 1
    /\ IndexOf(Keys(row_op.pre), row_op.key) = 3
    /\ Get(row_op.pre, row_op.key) # row_op.value
    /\ Get(row_op.pre, Keys(row_op.pre)[2]) # row_op.value
    /\ Get(row.data, row_op.key) = row_op.value

-----------------------------------------------------------------------------
\* Properties of the specification with calls on the rows (SpecMut).

Langs == {"en", "ja"}

NameStrings == {"Fire", "Hi", "Ice"}

\* The step is the caller's call on a row of the DataMap.
RowStep == row_op'.calls = row_op.calls + 1

\* The (lang, name) pairs of a name mapping.
Pairs(nm) == {<<nm[i][1], nm[i][2]>> : i \in 1..Len(nm)}

\* C11: every row of the DataMap has a field name.
C11_NameInvariant ==
    \A i \in 1..Len(data) : Has(data[i][2].data, "name")

\* C12: a name is in names(L) exactly when entry_of(L, name) gives a row.
C12_ContainsIffEntryOf ==
    \A lang \in Langs, nm \in NameStrings :
       NameSet_contains(Self, lang, nm) <=> (entry_of(Self, lang, nm) # NoneRow)

\* C13: iterating names(L) yields the name in L of each row, in the order of
\* _data and as the rows are now, up to the first row without a name in L,
\* where it raises KeyError; it ends without error only if there is no such row.
C13_NameSetIteration ==
    \A lang \in Langs :
       LET res == NameSet_iter(Self, lang)
           lacking == {i \in 1..Len(data) :
                          \/ ~Has(data[i][2].data, "name")
                          \/ ~Has(Get(data[i][2].data, "name"), lang)}
           k == IF lacking = {} THEN Len(data) + 1
                ELSE CHOOSE i \in lacking : \A j \in lacking : i <= j
       IN  /\ res.yielded = [i \in 1..(k - 1) |->
                                Get(Get(data[i][2].data, "name"), lang)]
           /\ (res.raised = "key_error") <=> (k <= Len(data))
           /\ (res.raised = "none") <=> (k = Len(data) + 1)

C13_Witness ==
    /\ row_op.op = "setitem"
    /\ row_op.key = "name"
    /\ row_op.value = Ice
    /\ Len(data) = 2
    /\ data[2][2] = row
    /\ NameSet_iter(Self, "en").yielded = <<"Fire", "Ice">>
    /\ NameSet_iter(Self, "en").raised = "none"
    /\ NameSet_iter(Self, "ja").yielded = <<"Hi">>
    /\ NameSet_iter(Self, "ja").raised = "key_error"
    /\ id_of(Self, "en", "Fire") = row.id

\* The caller's call has set the field name of a row.
SetsName == row_op'.key = "name" /\ row_op'.op \in {"setitem", "set_value"}

\* The pairs of the name the row of the call had before the call.
OldPairs ==
    IF Has(row_op'.pre, "name") THEN Pairs(Get(row_op'.pre, "name")) ELSE {}

\* C19 as claimed: after the caller sets the name of a row r of the DataMap,
\* the reverse index is as before, id_of gives the id of r for every pair of
\* the old name and None for every pair that only the new name has; and no
\* call on a row changes the entry ids of _data, the reverse index or the
\* generator state.
C19_StaleIndexOfRow ==
    [][RowStep =>
         /\ reverse_entries' = reverse_entries
         /\ Keys(data') = Keys(data)
         /\ UNCHANGED <<id_gen, last_id>>
         /\ SetsName =>
               LET old == OldPairs
                   new == Pairs(row_op'.value)
               IN  /\ \A p \in old : id_of(Self, p[1], p[2])' = row'.id
                   /\ \A p \in new \ old : id_of(Self, p[1], p[2])' = None]_vars

\* C19 as amended: no call on a row changes the entry ids of _data, the
\* reverse index or the generator state; so after the caller sets the name of
\* a row, id_of gives for every pair of the old and of the new name what it
\* gave before the call, which is the id of the row inserted last with the
\* pair, and None if no row was inserted with the pair, whatever names the
\* rows have now.
C19_StaleIndex ==
    [][RowStep =>
         /\ reverse_entries' = reverse_entries
         /\ Keys(data') = Keys(data)
         /\ UNCHANGED <<id_gen, last_id>>
         /\ SetsName =>
               \A p \in OldPairs \cup Pairs(row_op'.value) :
                  LET holders == {i \in 1..Len(inserted) : p \in Pairs(inserted[i][2])}
                  IN  /\ id_of(Self, p[1], p[2])' = id_of(Self, p[1], p[2])
                      /\ (holders = {}) => id_of(Self, p[1], p[2])' = None
                      /\ \A i \in holders :
                            (\A j \in holders : j <= i)
                               => id_of(Self, p[1], p[2])' = inserted[i][1]]_vars

\* The caller has set the name of a row a second time: the pair of the name
\* of the first call was never inserted, the pairs of the new name were.
C19_Witness ==
    /\ row_op.calls = 2
    /\ row_op.op = "setitem"
    /\ row_op.key = "name"
    /\ row_op.value = FireHi
    /\ Has(row_op.pre, "name")
    /\ Get(row_op.pre, "name") = Ice
    /\ Get(data, row.id) = row
    /\ Len(data) >= 2
    /\ id_of(Self, "en", "Ice") = None
    /\ id_of(Self, "ja", "Hi") = row.id
    /\ id_of(Self, "en", "Fire") \notin {row.id, None}

====
